---- MODULE Spec2Model ----
(***************************************************************************)
(* Groth16 prover CLI: main -> runProver -> buildCircuit, generateProof,   *)
(* writeProof.  Two variants of the program are modelled side by side:     *)
(*   "commit" : src/prover.go          (commitment-aware writeProof)       *)
(*   "simple" : src/unnamed/part_000   (8-element writeProof)              *)
(* The proving library is the environment: each of its calls is a          *)
(* nondeterministic outcome, and the byte buffers it returns are drawn     *)
(* from small generated families.                                          *)
(***************************************************************************)
EXTENDS Integers, Sequences, FiniteSets, TLC

VARIABLES variant, inDir, outProof, outContract, dummySetup,
          pc, exitCode, diag, trace, outcome,
          vk, witness, proof, validPublicWitness,
          contractFile, exportInvoked, proofFile, writeCount, wp

vars == <<variant, inDir, outProof, outContract, dummySetup,
          pc, exitCode, diag, trace, outcome,
          vk, witness, proof, validPublicWitness,
          contractFile, exportInvoked, proofFile, writeCount, wp>>

config == <<variant, inDir, outProof, outContract, dummySetup>>

----------------------------------------------------------------------------
(* Bounds of the model *)

MaxPublicInputs == 3

MaxNbPublicWitness == 5

MaxCommitments == 2

----------------------------------------------------------------------------
(* Program constants *)

fpSize == 4 * 8

HeaderLen == 12

NbProofElems == 8

CountLen == 4

Variants == {"commit", "simple"}

----------------------------------------------------------------------------
(* Byte and hex helpers *)

Min(a, b) == IF a <= b THEN a ELSE b

HexDigits == <<"0", "1", "2", "3", "4", "5", "6", "7",
               "8", "9", "a", "b", "c", "d", "e", "f">>

\* hex.EncodeToString: two lowercase digits per byte, high nibble first.
EncodeToString(b) ==
    [j \in 1..(2 * Len(b)) |->
        IF j % 2 = 1 THEN HexDigits[(b[(j + 1) \div 2] \div 16) + 1]
        ELSE HexDigits[(b[j \div 2] % 16) + 1]]

Pow256 == <<1, 256, 65536, 16777216>>

\* Big-endian encoding of x (0 <= x < 2^31) on n bytes.
ToBytesBE(x, n) ==
    [i \in 1..n |->
        IF n - i >= Len(Pow256) THEN 0 ELSE (x \div Pow256[n - i + 1]) % 256]

\* big.Int.SetBytes: big-endian decoding.
RECURSIVE SetBytes(_)
SetBytes(b) ==
    IF b = <<>> THEN 0
    ELSE SetBytes(SubSeq(b, 1, Len(b) - 1)) * 256 + b[Len(b)]

----------------------------------------------------------------------------
(* Objects handed over by the proving library *)

NoVK == [present |-> FALSE, nbPublicWitness |-> 0]

NoWitness == [present |-> FALSE, public |-> <<>>, secret |-> <<>>]

NoProof == [present |-> FALSE, seed |-> 0, count |-> 0, len |-> 0, cap |-> 0]

FieldVals == <<0, 255, 16909060, 2147483647>>

\* A count that fills the high byte of the 4-byte field.
BigCount == Pow256[4]

Vec(n) == [i \in 1..n |-> FieldVals[(i % Len(FieldVals)) + 1]]

Witnesses ==
    {[present |-> TRUE, public |-> Vec(n), secret |-> <<7>>] :
        n \in 0..MaxPublicInputs}

VerifyingKeys ==
    {[present |-> TRUE, nbPublicWitness |-> k] : k \in 0..MaxNbPublicWitness}

\* Length of Ar | Bs | Krs | count | c commitments | proof of knowledge.
FullLen(c) ==
    fpSize * NbProofElems + CountLen + 2 * c * fpSize + 2 * fpSize

\* A proof is known by the bytes it marshals to: a backing array of cap
\* bytes of which the first len are the slice's length.
Proofs ==
    {[present |-> TRUE, seed |-> 1, count |-> c,
      len |-> FullLen(c), cap |-> FullLen(c)] : c \in 0..MaxCommitments}
    \cup {[present |-> TRUE, seed |-> 2, count |-> MaxCommitments,
           len |-> FullLen(MaxCommitments) - 1, cap |-> FullLen(MaxCommitments) - 1],
          [present |-> TRUE, seed |-> 2, count |-> 0,
           len |-> fpSize * NbProofElems, cap |-> FullLen(0)],
          [present |-> TRUE, seed |-> 2, count |-> BigCount,
           len |-> FullLen(0), cap |-> FullLen(0)],
          [present |-> TRUE, seed |-> 1, count |-> 0,
           len |-> fpSize * NbProofElems, cap |-> fpSize * NbProofElems]}

ProofByte(seed, pos) == (seed * 31 + pos * 7) % 256

\* proof.MarshalSolidity() / proof.WriteRawTo(buf): the backing array.
ProofBytes(p) ==
    [i \in 1..p.cap |->
        IF i > fpSize * NbProofElems /\ i <= fpSize * NbProofElems + CountLen
        THEN ToBytesBE(p.count, CountLen)[i - fpSize * NbProofElems]
        ELSE ProofByte(p.seed, i)]

\* witness.Public()
Public(w) == [present |-> TRUE, public |-> w.public, secret |-> <<>>]

\* witness.Vector()
Vector(w) == w.public \o w.secret

\* witness.MarshalBinary(): nbPublic, nbSecret, nbElements, then the elements.
MarshalBinary(w) ==
    ToBytesBE(Len(w.public), 4) \o ToBytesBE(Len(w.secret), 4)
    \o ToBytesBE(Len(Vector(w)), 4)
    \o [j \in 1..(Len(Vector(w)) * fpSize) |->
           ToBytesBE(Vector(w)[((j - 1) \div fpSize) + 1], fpSize)[((j - 1) % fpSize) + 1]]

\* Bytes lost at the end of the marshalled public witness (0: none).
Cuts == {0, 1, fpSize}

Truncate(b, cut) ==
    IF Len(b) - HeaderLen >= cut THEN SubSeq(b, 1, Len(b) - cut) ELSE b

----------------------------------------------------------------------------
(* writeProof *)

\* Mutant: the "0x" prefix is left out.
HexElem_NoPrefix(buf, off) == EncodeToString(SubSeq(buf, off + 1, off + fpSize))

\* "0x" + hex.EncodeToString(buf[off : off+fpSize])
HexElem(buf, off) == <<"0", "x">> \o EncodeToString(SubSeq(buf, off + 1, off + fpSize))

\* for i := 0; i < n; i++ { out[i] = "0x" + hex(buf[base+i*fpSize : base+(i+1)*fpSize]) }
\* A slice expression past cap panics: only the elements before it are decoded.
NbDecodable(base, n, cap) ==
    IF cap < base THEN 0 ELSE Min(n, (cap - base) \div fpSize)

DecodeElems(buf, base, n, cap) ==
    [i \in 1..NbDecodable(base, n, cap) |-> HexElem(buf, base + (i - 1) * fpSize)]

WP0 == [entered |-> FALSE, at |-> "none", exit |-> 0, msg |-> "none",
        nbPublicInputs |-> -1, numDefined |-> FALSE, numOfCommitments |-> 0,
        countRead |-> FALSE, commitmentCount |-> 0,
        marshalled |-> FALSE, bPublicWitness |-> <<>>,
        inputs |-> <<>>, proofs |-> <<>>,
        commitments |-> <<>>, commitmentPok |-> <<>>,
        encoded |-> FALSE, written |-> FALSE, file |-> {}]

Panic(r, where, m) == [r EXCEPT !.at = where, !.exit = 2, !.msg = m]

Return(r, where, m) == [r EXCEPT !.at = where, !.exit = 0, !.msg = m]

\* jsonData, WriteFile: the tail shared by both variants.
Persist(r, data, path, writeOk) ==
    IF writeOk /\ path # ""
    THEN [r EXCEPT !.at = "write", !.encoded = TRUE, !.written = TRUE,
                   !.file = {data}]
    ELSE [r EXCEPT !.at = "write", !.encoded = TRUE,
                   !.msg = "Error writing to file:"]

\* len(inputBytes)%fpSize != 0
Misaligned(inputBytes) == Len(inputBytes) % fpSize # 0

\* c := new(big.Int).SetBytes(proofBytes[fpSize*8 : fpSize*8+4])
ReadCount(proofBytes) ==
    SetBytes(SubSeq(proofBytes, fpSize * NbProofElems + 1,
                    fpSize * NbProofElems + CountLen))

\* Mutant: only a count above the derived one is rejected.
CountMismatch_Greater(commitmentCount, numOfCommitments) ==
    commitmentCount > numOfCommitments

\* commitmentCount != numOfCommitments
CountMismatch(commitmentCount, numOfCommitments) ==
    commitmentCount # numOfCommitments

\* Mutant: the 4 bytes of the count are not skipped.
CommitmentsBase_NoCount == fpSize * NbProofElems

\* proofBytes[fpSize*8+4+i*fpSize : ...]
CommitmentsBase == fpSize * NbProofElems + CountLen

EnvOk == [solOk |-> TRUE, publicOk |-> TRUE, marshalOk |-> TRUE,
          cut |-> 0, writeOk |-> TRUE]

\* What the library calls and the file system do inside writeProof.
Env == {[EnvOk EXCEPT !.cut = c, !.writeOk = w] : c \in Cuts, w \in BOOLEAN}
       \cup {[EnvOk EXCEPT !.solOk = FALSE], [EnvOk EXCEPT !.publicOk = FALSE],
             [EnvOk EXCEPT !.marshalOk = FALSE]}

\* src/prover.go
writeProofCommit(path, p, vpw, k, e) ==
  LET r0 == [WP0 EXCEPT !.entered = TRUE] IN
  IF ~vpw.present THEN Panic(r0, "nilWitness", "nil pointer dereference")
  ELSE LET nbPublicInputs == Len(Vector(vpw))
           ra == [r0 EXCEPT !.nbPublicInputs = nbPublicInputs] IN
  IF ~k.present THEN Panic(ra, "nilVK", "nil pointer dereference")
  ELSE LET numOfCommitments == k.nbPublicWitness - nbPublicInputs
           r1 == [ra EXCEPT !.numDefined = TRUE,
                            !.numOfCommitments = numOfCommitments] IN
  IF ~e.solOk THEN Return(r1, "marshalProof", "Error marshalling proof")
  ELSE IF ~e.marshalOk
  THEN Return(r1, "marshalWitness", "Error marshalling public witness")
  ELSE LET proofBytes == ProofBytes(p)
           bPublicWitness == Truncate(MarshalBinary(vpw), e.cut)
           r2 == [r1 EXCEPT !.marshalled = TRUE,
                            !.bPublicWitness = bPublicWitness] IN
  IF Len(bPublicWitness) < HeaderLen
  THEN Panic(r2, "header", "slice bounds out of range")
  ELSE LET inputBytes == SubSeq(bPublicWitness, HeaderLen + 1, Len(bPublicWitness)) IN
  IF Misaligned(inputBytes) THEN Panic(r2, "align", "inputBytes mod 32 !=0")
  ELSE LET nbInputs == Len(inputBytes) \div fpSize IN
  IF nbInputs # nbPublicInputs
  THEN Panic(r2, "nbInputs", "nbInputs != nbPublicInputs")
  ELSE LET inputs == DecodeElems(inputBytes, 0, nbInputs, Len(inputBytes))
           proofs == DecodeElems(proofBytes, 0, NbProofElems, p.cap)
           r3 == [r2 EXCEPT !.inputs = inputs, !.proofs = proofs] IN
  IF Len(proofs) < NbProofElems
  THEN Panic(r3, "proofSlice", "slice bounds out of range")
  ELSE IF p.cap < fpSize * NbProofElems + CountLen
  THEN Panic(r3, "countSlice", "slice bounds out of range")
  ELSE LET commitmentCount == ReadCount(proofBytes)
           r4 == [r3 EXCEPT !.countRead = TRUE,
                            !.commitmentCount = commitmentCount] IN
  IF CountMismatch(commitmentCount, numOfCommitments)
  THEN Panic(r4, "countCheck", "commitmentCount != .NbCommitments")
  ELSE LET commitments == DecodeElems(proofBytes, CommitmentsBase,
                                      2 * commitmentCount, p.cap)
           r5 == [r4 EXCEPT !.commitments = commitments] IN
  IF Len(commitments) < 2 * commitmentCount
  THEN Panic(r5, "commitSlice", "slice bounds out of range")
  ELSE LET commitmentPok ==
               DecodeElems(proofBytes,
                           CommitmentsBase + 2 * commitmentCount * fpSize, 2, p.cap)
           r6 == [r5 EXCEPT !.commitmentPok = commitmentPok] IN
  IF Len(commitmentPok) < 2
  THEN Panic(r6, "pokSlice", "slice bounds out of range")
  ELSE Persist(r6, [proof |-> proofs, inputs |-> inputs,
                    commitments |-> commitments,
                    commitment_pok |-> commitmentPok], path, e.writeOk)

\* nbInputs := len(publicWitnessBytes) / fpSize
NbInputsSimple(publicWitnessBytes) == Len(publicWitnessBytes) \div fpSize

\* src/unnamed/part_000
writeProofSimple(path, p, w, e) ==
  LET r0 == [WP0 EXCEPT !.entered = TRUE]
      proofBytes == ProofBytes(p)
      proofs == DecodeElems(proofBytes, 0, NbProofElems, p.cap)
      r1 == [r0 EXCEPT !.proofs = proofs] IN
  IF ~p.present THEN Panic(r0, "nilProof", "nil pointer dereference")
  ELSE IF Len(proofs) < NbProofElems
  THEN Panic(r1, "proofSlice", "slice bounds out of range")
  ELSE IF ~w.present \/ ~e.publicOk
  THEN Panic(r1, "nilWitness", "nil pointer dereference")
  ELSE LET publicWitness == Public(w)
           marshalledBytes ==
               IF e.marshalOk THEN Truncate(MarshalBinary(publicWitness), e.cut)
               ELSE <<>>
           r2 == [r1 EXCEPT !.marshalled = e.marshalOk,
                            !.bPublicWitness = marshalledBytes] IN
  IF Len(marshalledBytes) < HeaderLen
  THEN Panic(r2, "header", "slice bounds out of range")
  ELSE LET publicWitnessBytes ==
               SubSeq(marshalledBytes, HeaderLen + 1, Len(marshalledBytes))
           nbInputs == NbInputsSimple(publicWitnessBytes)
           inputs == DecodeElems(publicWitnessBytes, 0, nbInputs,
                                 Len(publicWitnessBytes))
           r3 == [r2 EXCEPT !.inputs = inputs] IN
  Persist(r3, [proof |-> proofs, inputs |-> inputs], path, e.writeOk)

----------------------------------------------------------------------------
(* The run *)

Stages == <<"buildCircuit", "setup", "export", "witness", "prove",
            "encode", "persist">>

StageSet == {Stages[i] : i \in 1..Len(Stages)}

Init ==
    /\ variant \in Variants
    /\ inDir \in {"", "in"}
    /\ outProof \in {"", "proof.json"}
    /\ outContract \in {"", "Verifier.sol"}
    /\ dummySetup \in BOOLEAN
    /\ pc = "main"
    /\ exitCode = -1
    /\ diag = <<>>
    /\ trace = <<>>
    /\ outcome = [s \in StageSet |-> "none"]
    /\ vk = NoVK
    /\ witness = NoWitness
    /\ proof = NoProof
    /\ validPublicWitness = NoWitness
    /\ contractFile = "absent"
    /\ exportInvoked = FALSE
    /\ proofFile = {}
    /\ writeCount = 0
    /\ wp = WP0

\* Mutant: a failed stage is entered again instead of ending the run.
Exit_Retry(stage, code, msg) ==
    /\ pc' = pc
    /\ outcome' = [outcome EXCEPT ![stage] = "fail"]
    /\ UNCHANGED <<exitCode, diag>>

\* os.Exit(code) or a panic, after printing msg.
Exit(stage, code, msg) ==
    /\ pc' = "done"
    /\ exitCode' = code
    /\ diag' = Append(diag, msg)
    /\ outcome' = [outcome EXCEPT ![stage] = "fail"]

Continue(stage, next) ==
    /\ pc' = next
    /\ outcome' = [outcome EXCEPT ![stage] = "ok"]
    /\ UNCHANGED <<exitCode, diag>>

\* main: parse the flags, print them, call runProver.
Main ==
    /\ pc = "main"
    /\ pc' = "buildCircuit"
    /\ UNCHANGED <<config, exitCode, diag, trace, outcome, vk, witness, proof,
                   validPublicWitness, contractFile, exportInvoked, proofFile,
                   writeCount, wp>>

\* buildCircuit: read the three input files (the readers panic on a file
\* they cannot read), compile the circuit.
BuildCircuit ==
    /\ pc = "buildCircuit"
    /\ trace' = Append(trace, "buildCircuit")
    /\ \E loadOk \in BOOLEAN, compileOk \in BOOLEAN :
          IF ~loadOk THEN Exit("buildCircuit", 2, "panic")
          ELSE IF ~compileOk
          THEN Exit("buildCircuit", 1, "error in building circuit")
          ELSE Continue("buildCircuit", "setup")
    /\ UNCHANGED <<config, vk, witness, proof, validPublicWitness, contractFile,
                   exportInvoked, proofFile, writeCount, wp>>

\* generateProof: groth16.DummySetup / groth16.Setup.
Setup ==
    /\ pc = "setup"
    /\ trace' = Append(trace, "setup")
    /\ \E setupOk \in BOOLEAN, k \in VerifyingKeys :
          IF ~setupOk THEN Exit("setup", 1, "err") /\ vk' = vk
          ELSE /\ vk' = IF dummySetup THEN vk ELSE k
               /\ Continue("setup", IF outContract # "" THEN "export" ELSE "witness")
    /\ UNCHANGED <<config, witness, proof, validPublicWitness, contractFile,
                   exportInvoked, proofFile, writeCount, wp>>

\* generateProof: os.Create(outContract); vk.ExportSolidity(fSolidity).
ExportSolidity ==
    /\ pc = "export"
    /\ trace' = Append(trace, "export")
    /\ exportInvoked' = TRUE
    /\ \E createOk \in BOOLEAN, exportOk \in BOOLEAN :
          IF ~vk.present
          THEN /\ contractFile' = IF createOk THEN "created" ELSE contractFile
               /\ Exit("export", 2, "nil pointer dereference")
          ELSE IF createOk /\ exportOk
          THEN /\ contractFile' = "exported"
               /\ Continue("export", "witness")
          ELSE /\ contractFile' = IF createOk THEN "created" ELSE contractFile
               /\ Exit("export", 1, "err")
    /\ UNCHANGED <<config, vk, witness, proof, validPublicWitness, proofFile,
                   writeCount, wp>>

\* generateProof: witness, _ := frontend.NewWitness(...)
NewWitness ==
    /\ pc = "witness"
    /\ trace' = Append(trace, "witness")
    /\ \E w \in Witnesses \cup {NoWitness} :
          /\ witness' = w
          /\ outcome' = [outcome EXCEPT
                            !["witness"] = IF w.present THEN "ok" ELSE "fail"]
    /\ pc' = "prove"
    /\ UNCHANGED <<config, exitCode, diag, vk, proof, validPublicWitness,
                   contractFile, exportInvoked, proofFile, writeCount, wp>>

\* What groth16.Prove can return: a proof or an error for a witness, and no
\* proof for the nil witness a failed NewWitness leaves (it reads the
\* witness's vector first).
ProveResults(w) ==
    IF w.present THEN Proofs \cup {NoProof} ELSE {NoProof}

\* generateProof: proof, err := groth16.Prove(r1cs, pk, witness)
Prove ==
    /\ pc = "prove"
    /\ trace' = Append(trace, "prove")
    /\ \E p \in ProveResults(witness) :
          IF p.present
          THEN /\ proof' = p
               /\ Continue("prove", IF variant = "commit" THEN "public"
                                    ELSE "writeProof")
          ELSE /\ proof' = proof
               /\ \E code \in (IF witness.present THEN {1} ELSE {1, 2}) :
                     Exit("prove", code, IF code = 1 THEN "err" ELSE "panic")
    /\ UNCHANGED <<config, vk, witness, validPublicWitness, contractFile,
                   exportInvoked, proofFile, writeCount, wp>>

\* generateProof (src/prover.go): validPublicWitness, _ := witness.Public()
PublicWitness ==
    /\ pc = "public"
    /\ \E ok \in BOOLEAN :
          /\ validPublicWitness' = IF ok THEN Public(witness) ELSE NoWitness
          /\ outcome' = [outcome EXCEPT
                            !["witness"] = IF ok THEN @ ELSE "fail"]
    /\ pc' = "writeProof"
    /\ UNCHANGED <<config, exitCode, diag, trace, vk, witness, proof,
                   contractFile, exportInvoked, proofFile, writeCount, wp>>

\* runProver: writeProof(outProof, proof, ...), then main returns.
WriteProof ==
    /\ pc = "writeProof"
    /\ \E e \in Env :
          \E r \in {IF variant = "commit"
                    THEN writeProofCommit(outProof, proof, validPublicWitness, vk, e)
                    ELSE writeProofSimple(outProof, proof, witness, e)} :
             /\ wp' = r
             /\ trace' = trace \o (IF r.at = "write" THEN <<"encode", "persist">>
                                   ELSE <<"encode">>)
             /\ proofFile' = IF r.written THEN r.file ELSE proofFile
             /\ writeCount' = IF r.at = "write" THEN writeCount + 1 ELSE writeCount
             /\ exitCode' = r.exit
             /\ diag' = IF r.msg = "none" THEN diag ELSE Append(diag, r.msg)
             /\ outcome' = [outcome EXCEPT
                   !["encode"] = IF r.encoded THEN "ok" ELSE "fail",
                   !["persist"] = IF r.at # "write" THEN @
                                  ELSE IF r.written THEN "ok" ELSE "fail",
                   !["witness"] = IF r.at = "nilWitness" THEN "fail" ELSE @]
    /\ pc' = "done"
    /\ UNCHANGED <<config, vk, witness, proof, validPublicWitness, contractFile,
                   exportInvoked>>

Next ==
    \/ Main
    \/ BuildCircuit
    \/ Setup
    \/ ExportSolidity
    \/ NewWitness
    \/ Prove
    \/ PublicWitness
    \/ WriteProof

Spec == Init /\ [][Next]_vars

----------------------------------------------------------------------------
(* Reading the output back *)

InTrace(stage) == \E i \in 1..Len(trace) : trace[i] = stage

Written == proofFile # {}

TheFile == CHOOSE d \in proofFile : TRUE

HexVal(ch) == CHOOSE d \in 0..15 : HexDigits[d + 1] = ch

IsHexString(s) ==
    /\ Len(s) = 2 + 2 * fpSize
    /\ s[1] = "0" /\ s[2] = "x"
    /\ \A j \in 3..Len(s) : \E d \in 0..15 : HexDigits[d + 1] = s[j]

\* The bytes a "0x..." string stands for.
UnHex(s) ==
    [i \in 1..((Len(s) - 2) \div 2) |->
        HexVal(s[2 * i + 1]) * 16 + HexVal(s[2 * i + 2])]

\* The field element a 32-byte big-endian string stands for; -1 when it does
\* not fit the model's integers.
ElementValue(b) ==
    IF (\E i \in 1..(fpSize - 4) : b[i] # 0) \/ b[fpSize - 3] >= 128 THEN -1
    ELSE ((b[fpSize - 3] * 256 + b[fpSize - 2]) * 256 + b[fpSize - 1]) * 256
         + b[fpSize]

\* The count embedded in the proof's bytes at offset 8*32.
EmbeddedCount(p) ==
    LET b == ProofBytes(p) IN
    ((b[257] * 256 + b[258]) * 256 + b[259]) * 256 + b[260]

InputBytesLen == Len(wp.bPublicWitness) - HeaderLen

----------------------------------------------------------------------------
(* Claims *)

\* C1: in both variants a public-witness buffer whose length after the
\* 12-byte header is not a multiple of 32 makes writeProof fail fatally and
\* the proof file is never written.
C1_MisalignedNeverWritten ==
    (wp.entered /\ wp.marshalled /\ InputBytesLen >= 0
        /\ InputBytesLen % fpSize # 0)
    => (exitCode \notin {-1, 0} /\ proofFile = {} /\ writeCount = 0)

\* C2: in the commitment-aware writeProof, when the count embedded at byte
\* offset 8*32 of the proof differs from vk.NbPublicWitness() - nbPublicInputs
\* the proof file is never written, no commitment or proof-of-knowledge
\* element is read, and the run panics at the count check once it gets there.
C2_CountMismatchAborts ==
    (variant = "commit" /\ wp.entered /\ vk.present /\ validPublicWitness.present
        /\ proof.cap >= fpSize * NbProofElems + CountLen
        /\ EmbeddedCount(proof)
             # vk.nbPublicWitness - Len(validPublicWitness.public))
    => /\ proofFile = {} /\ writeCount = 0
       /\ wp.commitments = <<>> /\ wp.commitmentPok = <<>>
       /\ wp.countRead =>
             /\ wp.at = "countCheck" /\ exitCode = 2
             /\ diag[Len(diag)] = "commitmentCount != .NbCommitments"

C2_Witness ==
    /\ variant = "commit" /\ wp.at = "countCheck" /\ exitCode = 2
    /\ wp.commitmentCount = 1 /\ wp.numOfCommitments = 2

\* C3: whenever writeProof writes an output for a public witness marshalled
\* as a 12-byte header followed by its n 32-byte elements, the inputs list has
\* length n and inputs[i] is "0x" and the hex of the i-th element, so parsing
\* it back gives the i-th element of the vector (both variants).
C3_InputsRoundTrip ==
    (Written /\ wp.bPublicWitness = MarshalBinary(Public(witness)))
    => LET v == witness.public
           f == TheFile
       IN /\ Len(f.inputs) = Len(v)
          /\ \A i \in 1..Len(v) :
                /\ IsHexString(f.inputs[i])
                /\ UnHex(f.inputs[i])
                     = SubSeq(wp.bPublicWitness, HeaderLen + fpSize * (i - 1) + 1,
                              HeaderLen + fpSize * i)
                /\ ElementValue(UnHex(f.inputs[i])) = v[i]

C3_Witness ==
    /\ variant = "simple" /\ Written
    /\ wp.bPublicWitness = MarshalBinary(Public(witness))
    /\ Len(witness.public) = 3 /\ Len(TheFile.inputs) = 3

\* C4: with the dummy setup flag set no VerifyingKey is produced, no contract
\* file is created and ExportSolidity is not invoked, whatever out-contract is.
C4_DummyNoExport ==
    dummySetup => (~vk.present /\ contractFile = "absent" /\ ~exportInvoked)

\* C5: when the input directory or the output proof path is empty no pipeline
\* stage is ever entered.
C5_MissingPathNoStage ==
    (inDir = "" \/ outProof = "") => trace = <<>>

\* C6: when NewWitness or witness.Public fails, proving is not run on the
\* failed witness, writeProof is never entered and no proof file is written;
\* a failure of Prove ends the run before writeProof.
C6_WitnessFailureStops ==
    /\ (InTrace("witness") /\ ~witness.present) => ~InTrace("prove")
    /\ (variant = "commit" /\ pc \in {"writeProof", "done"}
          /\ outcome["prove"] = "ok" /\ ~validPublicWitness.present)
       => ~wp.entered
    /\ outcome["prove"] = "fail" => (~wp.entered /\ proofFile = {})
    /\ outcome["witness"] = "fail" => proofFile = {}

\* C7: a run in which a stage up to and including encoding fails ends with a
\* non-zero exit status after printing the cause; exit status 0 only when
\* every stage through encoding succeeded.
C7_ExitStatus ==
    pc = "done" =>
       /\ (\E s \in StageSet \ {"persist"} : outcome[s] = "fail")
             => (exitCode # 0 /\ diag # <<>>)
       /\ exitCode = 0 => wp.encoded

\* C8: in the commitment-aware encoder a negative numOfCommitments makes the
\* run fail before any proof or public-input element is decoded, and no output
\* file is written.
C8_NegativeFailsBeforeEncoding ==
    (variant = "commit" /\ wp.numDefined /\ wp.numOfCommitments < 0)
    => (wp.inputs = <<>> /\ wp.proofs = <<>> /\ proofFile = {})

\* C9: every written record is the positional decode of the proof bytes: 8
\* proof entries from bytes [32i, 32(i+1)); in the commitment-aware layout
\* with embedded count c, 2c commitments from byte 260 on and 2
\* proof-of-knowledge entries from the 64 bytes after them; in the simplified
\* layout no commitment field at all.
C9_PositionalDecode ==
    Written =>
       LET f == TheFile
           b == ProofBytes(proof)
           c == EmbeddedCount(proof)
       IN /\ Len(f.proof) = 8
          /\ \A i \in 1..8 :
                /\ IsHexString(f.proof[i])
                /\ UnHex(f.proof[i]) = SubSeq(b, 32 * (i - 1) + 1, 32 * i)
          /\ IF variant = "commit"
             THEN /\ DOMAIN f = {"proof", "inputs", "commitments", "commitment_pok"}
                  /\ Len(f.commitments) = 2 * c
                  /\ \A i \in 1..(2 * c) :
                        /\ IsHexString(f.commitments[i])
                        /\ UnHex(f.commitments[i])
                             = SubSeq(b, 260 + 32 * (i - 1) + 1, 260 + 32 * i)
                  /\ Len(f.commitment_pok) = 2
                  /\ \A j \in 1..2 :
                        /\ IsHexString(f.commitment_pok[j])
                        /\ UnHex(f.commitment_pok[j])
                             = SubSeq(b, 260 + 64 * c + 32 * (j - 1) + 1,
                                      260 + 64 * c + 32 * j)
             ELSE DOMAIN f = {"proof", "inputs"}

C9_Witness ==
    /\ variant = "commit" /\ Written
    /\ vk.nbPublicWitness = 5 /\ Len(validPublicWitness.public) = 3
    /\ Len(TheFile.commitments) = 4 /\ Len(TheFile.commitment_pok) = 2

StageIndex(stage) == CHOOSE i \in 1..Len(Stages) : Stages[i] = stage

====
